---- MODULE Spec2Model ----
(***************************************************************************)
(* Warehouse layout & inventory system: the warehouse generator and the    *)
(* data file (warehouse_data.py), the views (visualization.py) and the     *)
(* page: record filter, highlight controls, inventory report and           *)
(* stocktaking session (app.py).                                           *)
(*                                                                         *)
(* Eight specifications share the variables:                               *)
(*   SpecGen    - generate_realistic_warehouse(), one loop iteration per   *)
(*                step, the random module read from a tape;                *)
(*   SpecStore  - warehouse_data.csv and the session cache over sessions;  *)
(*   SpecFilter - the Tab 1 filter widgets and filtered_df;                *)
(*   SpecView   - the Tab 1 highlight controls and the two figures;        *)
(*   SpecReport - the Tab 2 widgets and the ratios of the page;            *)
(*   Spec       - the stocktaking session over a loaded table;             *)
(*   SpecSession - the session with its date and worker name;              *)
(*   SpecScope  - the session next to the scope and filter controls.       *)
(* Coordinates x, y, z are kept in half units (the source multiplies by    *)
(* 1.5), so x = 2 * (the source's x).                                      *)
(***************************************************************************)
EXTENDS Integers, Sequences, FiniteSets, TLC

VARIABLES
    locations,          \* generator: the list `locations` built so far
    gen,                \* generator: loop position [pc, zi, row, col, depth, i]
    tape,               \* generator: the outcomes the random module yields
    df,                 \* session: st.session_state['warehouse_data']
    verified_locations, \* session: st.session_state['verified_locations']
    notes,              \* session: st.session_state['notes']
    stocktake_zones,    \* Tab 3 widget "Select Zones to Check"
    stocktake_products, \* Tab 3 widget "Product Types to Check"
    stocktake_focus,    \* Tab 3 widget "Focus On"
    selected_zones,     \* Tab 1 widget "Select Zones"
    selected_products,  \* Tab 1 widget "Select Product Types"
    stock_range,        \* Tab 1 slider "Stock Quantity Range": <<min, max>>
    filtered_df,        \* Tab 1: filtered_df of the last script run
    ui,                 \* the highlight controls, the Tab 2 widgets, the script's error
    store,              \* warehouse_data.csv and the session's data_loaded flag
    last                \* the last handler that ran and its inputs

vars == <<locations, gen, tape, df, verified_locations, notes, stocktake_zones,
          stocktake_products, stocktake_focus, selected_zones, selected_products, stock_range,
          filtered_df, ui, store, last>>

(***************************************************************************)
(* Bounds of the model.                                                    *)
(***************************************************************************)
\* the generator's loops run over at most this many rows / columns / depths
MaxRows  == 2
MaxCols  == 2
MaxDepth == 2
\* the worker types an actual quantity in 0..MaxActual
MaxActual == 1

\* zones the generator specification iterates, in declaration order
GenZones == <<"A", "F", "K">>
\* notes the worker types
NoteTexts == {"", "damaged"}

Min(a, b) == IF a < b THEN a ELSE b

None == "None"
\* float('nan'), what read_csv yields for an empty cell
NaN == "nan"

\* a Python value held in the color column: its type and its items
PyList(items) == [type |-> "list", items |-> items]
PyTuple(items) == [type |-> "tuple", items |-> items]
PyInt(n) == [type |-> "int", items |-> <<n>>]
PyNaN == [type |-> "float", items |-> <<>>]
\* an exception raised in place of a value
PyRaise(exc) == [type |-> exc, items |-> <<>>]

(***************************************************************************)
(* Static configuration of generate_realistic_warehouse.                   *)
(***************************************************************************)
zone_configs ==
    [A |-> [product |-> "T-shirts", rows |-> 2, cols |-> 20, depth |-> 3, color |-> <<0, 0, 220>>],
     B |-> [product |-> "Jeans", rows |-> 2, cols |-> 20, depth |-> 3, color |-> <<0, 0, 200>>],
     C |-> [product |-> "Dresses", rows |-> 2, cols |-> 20, depth |-> 3, color |-> <<0, 0, 180>>],
     D |-> [product |-> "Sweaters", rows |-> 2, cols |-> 20, depth |-> 3, color |-> <<0, 0, 160>>],
     E |-> [product |-> "Jackets", rows |-> 2, cols |-> 20, depth |-> 3, color |-> <<0, 0, 140>>],
     F |-> [product |-> "Shoes", rows |-> 2, cols |-> 20, depth |-> 3, color |-> <<0, 0, 120>>],
     G |-> [product |-> "Accessories", rows |-> 2, cols |-> 20, depth |-> 3, color |-> <<0, 0, 100>>],
     H |-> [product |-> "Socks", rows |-> 1, cols |-> 20, depth |-> 3, color |-> <<100, 0, 100>>],
     J |-> [product |-> "Underwear", rows |-> 1, cols |-> 20, depth |-> 3, color |-> <<120, 0, 0>>],
     K |-> [product |-> "Premium Apparel", rows |-> 6, cols |-> 12, depth |-> 2, color |-> <<160, 0, 0>>],
     L |-> [product |-> "Seasonal Items", rows |-> 6, cols |-> 10, depth |-> 3, color |-> <<180, 0, 0>>],
     M |-> [product |-> "Designer Brands", rows |-> 6, cols |-> 8, depth |-> 2, color |-> <<200, 0, 0>>],
     N |-> [product |-> "New Arrivals", rows |-> 4, cols |-> 6, depth |-> 1, color |-> <<0, 120, 0>>],
     P |-> [product |-> "Sale Items", rows |-> 6, cols |-> 5, depth |-> 1, color |-> <<0, 140, 0>>],
     Q |-> [product |-> "Kids Clothing", rows |-> 6, cols |-> 5, depth |-> 1, color |-> <<0, 160, 0>>],
     R |-> [product |-> "Plus Size Collection", rows |-> 12, cols |-> 6, depth |-> 1, color |-> <<0, 180, 0>>],
     S |-> [product |-> "Athletic Wear", rows |-> 7, cols |-> 10, depth |-> 1, color |-> <<220, 120, 0>>],
     T |-> [product |-> "Returns Processing", rows |-> 5, cols |-> 3, depth |-> 1, color |-> <<220, 220, 0>>],
     U |-> [product |-> "Outbound Shipping", rows |-> 12, cols |-> 6, depth |-> 2, color |-> <<0, 220, 0>>]]

location_types ==
    [p \in {zone_configs[z].product : z \in DOMAIN zone_configs} |->
        CASE p \in {"T-shirts", "Jeans", "Sweaters"} -> "Folded Shelves"
          [] p \in {"Dresses", "Jackets"} -> "Hanging Racks"
          [] p = "Shoes" -> "Shoe Racks"
          [] p \in {"Accessories", "Socks", "Underwear"} -> "Small Item Bins"
          [] p \in {"Premium Apparel", "Designer Brands"} -> "Secure Storage"
          [] p = "Seasonal Items" -> "Bulk Storage"
          [] p = "New Arrivals" -> "Front-Facing Displays"
          [] p = "Sale Items" -> "Sale Racks"
          [] p = "Kids Clothing" -> "Age-Sorted Shelves"
          [] p = "Plus Size Collection" -> "Size-Sorted Racks"
          [] p = "Athletic Wear" -> "Activity-Sorted Racks"
          [] p = "Returns Processing" -> "Sorting Area"
          [] p = "Outbound Shipping" -> "Packing Station"]

positions ==
    [A |-> [x |-> 10, y |-> 70, z |-> 0], B |-> [x |-> 10, y |-> 60, z |-> 0],
     C |-> [x |-> 10, y |-> 50, z |-> 0], D |-> [x |-> 10, y |-> 40, z |-> 0],
     E |-> [x |-> 10, y |-> 30, z |-> 0], F |-> [x |-> 10, y |-> 20, z |-> 0],
     G |-> [x |-> 10, y |-> 10, z |-> 0], H |-> [x |-> 10, y |-> 5, z |-> 0],
     J |-> [x |-> 60, y |-> 5, z |-> 0], K |-> [x |-> 60, y |-> 20, z |-> 0],
     L |-> [x |-> 60, y |-> 50, z |-> 0], M |-> [x |-> 80, y |-> 40, z |-> 0],
     N |-> [x |-> 90, y |-> 70, z |-> 0], P |-> [x |-> 70, y |-> 60, z |-> 0],
     Q |-> [x |-> 80, y |-> 60, z |-> 0], R |-> [x |-> 90, y |-> 40, z |-> 0],
     S |-> [x |-> 40, y |-> 80, z |-> 0], T |-> [x |-> 5, y |-> 40, z |-> 0],
     U |-> [x |-> 90, y |-> 15, z |-> 0]]

sizes == <<"XS", "S", "M", "L", "XL", "XXL">>
shoe_sizes == <<"6", "7", "8", "9", "10", "11", "12">>
shoe_styles == <<"Running", "Casual", "Dress", "Sport">>
product_colors == <<"Black", "White", "Blue", "Red", "Green", "Gray">>

\* zones whose location ids are numeric
NumericZones == {"K", "L", "M", "N", "P", "Q", "R", "S", "U"}
\* zones that carry a depth annotation
DepthInfoZones == {"J", "K", "L", "U"}

\* randint(1, 20)
RandLow == 1
RandHigh == 20
\* range(1, 6): five receiving docks
NumDocks == 5

\* s[:3] for the strings the generator slices (product types and colours)
Take3(s) ==
    CASE s = "T-shirts" -> "T-s"
      [] s = "Jeans" -> "Jea"
      [] s = "Dresses" -> "Dre"
      [] s = "Sweaters" -> "Swe"
      [] s = "Jackets" -> "Jac"
      [] s = "Shoes" -> "Sho"
      [] s = "Accessories" -> "Acc"
      [] s = "Socks" -> "Soc"
      [] s = "Underwear" -> "Und"
      [] s = "Premium Apparel" -> "Pre"
      [] s = "Seasonal Items" -> "Sea"
      [] s = "Designer Brands" -> "Des"
      [] s = "New Arrivals" -> "New"
      [] s = "Sale Items" -> "Sal"
      [] s = "Kids Clothing" -> "Kid"
      [] s = "Plus Size Collection" -> "Plu"
      [] s = "Athletic Wear" -> "Ath"
      [] s = "Returns Processing" -> "Ret"
      [] s = "Outbound Shipping" -> "Out"
      [] s = "Black" -> "Bla"
      [] s = "White" -> "Whi"
      [] s = "Blue" -> "Blu"
      [] s = "Red" -> "Red"
      [] s = "Green" -> "Gre"
      [] s = "Gray" -> "Gra"

\* f"{n:02d}"
Pad2(n) == IF n < 10 THEN "0" \o ToString(n) ELSE ToString(n)

(***************************************************************************)
(* The random module.  A tape fixes what the calls return: slots[1] is     *)
(* what random.random() > 0.3 and randint(1, 20) yield for the odd loop    *)
(* iterations, slots[2] for the even ones, and pick is the index every     *)
(* random.choice() call draws.                                             *)
(***************************************************************************)
Outcomes(quantities) ==
    [has_stock : {FALSE}, quantity : {0}]
        \cup [has_stock : {TRUE}, quantity : quantities]

Tapes(quantities) ==
    [slots : Outcomes(quantities) \X Outcomes(quantities), pick : {1, 2}]

\* the outcome the tape yields for the n-th loop iteration
Draw(tp, n) == tp.slots[IF n % 2 = 1 THEN 1 ELSE 2]

(***************************************************************************)
(* generate_realistic_warehouse.  A layout names the zones iterated and    *)
(* the limits on the three loops and on the dock loop.                     *)
(***************************************************************************)
GenLayout ==
    [zones |-> GenZones, rows |-> MaxRows, cols |-> MaxCols, depth |-> MaxDepth,
     docks |-> NumDocks]

Rows(lay, zone_id) == Min(zone_configs[zone_id].rows, lay.rows)
Cols(lay, zone_id) == Min(zone_configs[zone_id].cols, lay.cols)
Depths(lay, zone_id) == Min(zone_configs[zone_id].depth, lay.depth)

\* lines 95-102: the location id of a slot
LocId(zone_id, row, col, depth) ==
    IF zone_id \in NumericZones
    THEN ToString((row * 2 - 1) + 100)
    ELSE zone_id \o "-" \o Pad2(row) \o "-" \o Pad2(col) \o "-" \o ToString(depth)

\* the product id built outside the has_stock branch
ProductIdAlways(product_type, has_stock, pick) ==
    IF product_type = "Shoes"
    THEN shoe_styles[pick] \o "-" \o shoe_sizes[pick]
    ELSE Take3(product_type) \o "-" \o Take3(product_colors[pick]) \o "-" \o sizes[pick]

\* lines 107-121: product id and quantity of a slot
ProductId(product_type, has_stock, pick) ==
    IF has_stock
    THEN IF product_type = "Shoes"
         THEN shoe_styles[pick] \o "-" \o shoe_sizes[pick]
         ELSE Take3(product_type) \o "-" \o Take3(product_colors[pick]) \o "-" \o sizes[pick]
    ELSE None

Quantity(out) == IF out.has_stock THEN out.quantity ELSE 0

\* the record with z left at the base of the zone, whatever the level
MakeLocationFlat(zone_id, row, col, depth, out, pick) ==
    LET config == zone_configs[zone_id]
        product_type == config.product
    IN  [location_id |-> LocId(zone_id, row, col, depth),
         zone |-> zone_id,
         row |-> row,
         column |-> col,
         depth |-> depth,
         location_type |-> location_types[product_type],
         product_id |-> ProductId(product_type, out.has_stock, pick),
         quantity |-> Quantity(out),
         product_type |-> product_type,
         x |-> 2 * positions[zone_id].x + col * 3,
         y |-> 2 * positions[zone_id].y + row * 4,
         z |-> 2 * positions[zone_id].z,
         color |-> PyList(config.color),
         depth_info |-> IF zone_id \in DepthInfoZones
                        THEN ToString(config.depth) \o "-Deep" ELSE ""]

\* lines 85-155: the record one iteration of the innermost loop appends
MakeLocation(zone_id, row, col, depth, out, pick) ==
    LET config == zone_configs[zone_id]
        product_type == config.product
    IN  [location_id |-> LocId(zone_id, row, col, depth),
         zone |-> zone_id,
         row |-> row,
         column |-> col,
         depth |-> depth,
         location_type |-> location_types[product_type],
         product_id |-> ProductId(product_type, out.has_stock, pick),
         quantity |-> Quantity(out),
         product_type |-> product_type,
         x |-> 2 * positions[zone_id].x + col * 3,
         y |-> 2 * positions[zone_id].y + row * 4,
         z |-> 2 * positions[zone_id].z + depth * 3,
         color |-> PyList(config.color),
         depth_info |-> IF zone_id \in DepthInfoZones
                        THEN ToString(config.depth) \o "-Deep" ELSE ""]

\* lines 157-175: the i-th receiving dock record
MakeDock(i) ==
    [location_id |-> "DOCK-" \o ToString(i),
     zone |-> "DOCK",
     row |-> i,
     column |-> 1,
     depth |-> 1,
     location_type |-> "Receiving Dock",
     product_id |-> None,
     quantity |-> 0,
     product_type |-> "Incoming Shipments",
     x |-> 2 * 2,
     y |-> 2 * (30 + i * 5),
     z |-> 0,
     color |-> PyList(<<255, 255, 0>>),
     depth_info |-> ""]

\* the loop position before the first iteration
GenStart(lay) ==
    IF Len(lay.zones) > 0
    THEN [pc |-> "zones", zi |-> 1, row |-> 1, col |-> 1, depth |-> 1, i |-> 0]
    ELSE [pc |-> IF lay.docks > 0 THEN "docks" ELSE "return",
          zi |-> 0, row |-> 0, col |-> 0, depth |-> 0, i |-> 1]

\* the zone loops with the innermost one written range(1, config["depth"])
NextSlotShortDepth(lay, g) ==
    LET zone_id == lay.zones[g.zi]
    IN  IF g.depth < Depths(lay, zone_id) - 1 THEN [g EXCEPT !.depth = g.depth + 1]
        ELSE IF g.col < Cols(lay, zone_id) THEN [g EXCEPT !.col = g.col + 1, !.depth = 1]
        ELSE IF g.row < Rows(lay, zone_id)
             THEN [g EXCEPT !.row = g.row + 1, !.col = 1, !.depth = 1]
        ELSE IF g.zi < Len(lay.zones)
             THEN [g EXCEPT !.zi = g.zi + 1, !.row = 1, !.col = 1, !.depth = 1]
        ELSE [pc |-> IF lay.docks > 0 THEN "docks" ELSE "return",
              zi |-> 0, row |-> 0, col |-> 0, depth |-> 0, i |-> 1]

\* the loop position after the iteration at position g of the zone loops
NextSlot(lay, g) ==
    LET zone_id == lay.zones[g.zi]
    IN  IF g.depth < Depths(lay, zone_id) THEN [g EXCEPT !.depth = g.depth + 1]
        ELSE IF g.col < Cols(lay, zone_id) THEN [g EXCEPT !.col = g.col + 1, !.depth = 1]
        ELSE IF g.row < Rows(lay, zone_id)
             THEN [g EXCEPT !.row = g.row + 1, !.col = 1, !.depth = 1]
        ELSE IF g.zi < Len(lay.zones)
             THEN [g EXCEPT !.zi = g.zi + 1, !.row = 1, !.col = 1, !.depth = 1]
        ELSE [pc |-> IF lay.docks > 0 THEN "docks" ELSE "return",
              zi |-> 0, row |-> 0, col |-> 0, depth |-> 0, i |-> 1]

\* the loop position after the i-th dock iteration
NextDock(lay, g) ==
    IF g.i < lay.docks THEN [g EXCEPT !.i = g.i + 1] ELSE [g EXCEPT !.pc = "return"]

\* one loop iteration: the list and the loop position after it
GenIterate(lay, tp, locs, g) ==
    IF g.pc = "zones"
    THEN [locations |->
              Append(locs, MakeLocation(lay.zones[g.zi], g.row, g.col, g.depth,
                                        Draw(tp, Len(locs) + 1), tp.pick)),
          gen |-> NextSlot(lay, g)]
    ELSE [locations |-> Append(locs, MakeDock(g.i)), gen |-> NextDock(lay, g)]

\* the table generate_realistic_warehouse returns under a layout and a tape
RECURSIVE GenRun(_, _, _, _)
GenRun(lay, tp, locs, g) ==
    IF g.pc = "return" THEN locs
    ELSE LET s == GenIterate(lay, tp, locs, g)
         IN  GenRun(lay, tp, s.locations, s.gen)

generate_realistic_warehouse(lay, tp) == GenRun(lay, tp, <<>>, GenStart(lay))


(***************************************************************************)
(* warehouse_data.csv: DataFrame.to_csv(index=False) and pd.read_csv.  A   *)
(* file is [exists, rows]; a row of the file holds one text per column.    *)
(***************************************************************************)
NoFile == [exists |-> FALSE, rows |-> <<>>]
FileOf(rows) == [exists |-> TRUE, rows |-> rows]

\* the largest coordinate (in half units) the parser is asked for
MaxCoord == 2 * 90 + 3 * 20

\* str(n) of an int64 cell
IntText(n) == ToString(n)
\* repr of a float64 cell holding h half units: 23 -> "11.5", 26 -> "13.0"
FloatText(h) == ToString(h \div 2) \o (IF h % 2 = 1 THEN ".5" ELSE ".0")
\* str of a list of three ints: "[0, 0, 220]"
ListText(items) ==
    "[" \o ToString(items[1]) \o ", " \o ToString(items[2]) \o ", "
        \o ToString(items[3]) \o "]"
\* a missing value (None, NaN) is written as the empty cell
TextCell(v) == IF v \in {None, NaN} THEN "" ELSE v

\* to_csv: the row of the file for one record
ToCsvRow(r) ==
    [location_id |-> TextCell(r.location_id),
     zone |-> TextCell(r.zone),
     row |-> IntText(r.row),
     column |-> IntText(r.column),
     depth |-> IntText(r.depth),
     location_type |-> TextCell(r.location_type),
     product_id |-> TextCell(r.product_id),
     quantity |-> IntText(r.quantity),
     product_type |-> TextCell(r.product_type),
     x |-> FloatText(r.x),
     y |-> FloatText(r.y),
     z |-> FloatText(r.z),
     color |-> ListText(r.color.items),
     depth_info |-> TextCell(r.depth_info)]

\* df.to_csv("warehouse_data.csv", index=False)
to_csv(table) == FileOf([i \in DOMAIN table |-> ToCsvRow(table[i])])

\* read_csv: an int64 column
ParseInt(text) == CHOOSE n \in 0..RandHigh : IntText(n) = text
\* read_csv: a float64 column
ParseFloat(text) == CHOOSE h \in 0..MaxCoord : FloatText(h) = text
\* read_csv: an object column; the empty cell is a missing value
ParseText(text) == IF text = "" THEN NaN ELSE text

\* pd.read_csv: the record read from one row of the file
ReadCsvRow(c) ==
    [location_id |-> ParseText(c.location_id),
     zone |-> ParseText(c.zone),
     row |-> ParseInt(c.row),
     column |-> ParseInt(c.column),
     depth |-> ParseInt(c.depth),
     location_type |-> ParseText(c.location_type),
     product_id |-> ParseText(c.product_id),
     quantity |-> ParseInt(c.quantity),
     product_type |-> ParseText(c.product_type),
     x |-> ParseFloat(c.x),
     y |-> ParseFloat(c.y),
     z |-> ParseFloat(c.z),
     color |-> ParseText(c.color),
     depth_info |-> ParseText(c.depth_info)]

\* the base colours the generator writes
KnownColors ==
    {zone_configs[z].color : z \in DOMAIN zone_configs} \cup {<<255, 255, 0>>}

\* colour cells of a file that was edited by hand
BadColorTexts == {"5", "[0, 0]", "(0, 0, 220)", "blue", "[0, 0", "{[1]: 2}"}

\* ast.literal_eval on the text of a colour cell
literal_eval(text) ==
    IF \E items \in KnownColors : ListText(items) = text
    THEN PyList(CHOOSE items \in KnownColors : ListText(items) = text)
    ELSE CASE text = "5" -> PyInt(5)
           [] text = "[0, 0]" -> PyList(<<0, 0>>)
           [] text = "(0, 0, 220)" -> PyTuple(<<0, 0, 220>>)
           [] text = "blue" -> PyRaise("ValueError")
           [] text = "[0, 0" -> PyRaise("SyntaxError")
           [] text = "{[1]: 2}" -> PyRaise("TypeError")

\* warehouse_data.py 190-198: parse_color
parse_color(color_val) ==
    IF color_val # NaN
    THEN LET v == literal_eval(color_val)
         IN  IF v.type \in {"ValueError", "SyntaxError"} THEN PyList(<<0, 0, 255>>) ELSE v
    ELSE PyNaN

\* warehouse_data.py 184-203: the frame built from the rows of the file; the
\* colour column is parsed when its dtype is object (some cell holds text)
LoadFrame(rows) ==
    LET frame == [i \in DOMAIN rows |-> ReadCsvRow(rows[i])]
        is_object == \E i \in DOMAIN frame : frame[i].color # NaN
    IN  [i \in DOMAIN frame |->
            [frame[i] EXCEPT
                !.product_type = IF @ = NaN THEN "Unknown" ELSE @,
                !.color = IF is_object THEN parse_color(@) ELSE PyNaN]]

\* warehouse_data.py 179-210: get_warehouse_data; fresh is the table
\* generate_realistic_warehouse() returns if it is called.  The result
\* names the frame returned and the file left behind.
get_warehouse_data(file, fresh) ==
    LET generated == [df |-> fresh, file |-> to_csv(fresh), source |-> "generated"]
    IN  IF ~file.exists THEN generated
        ELSE LET loaded == LoadFrame(file.rows)
             IN  IF \E i \in DOMAIN loaded : loaded[i].color.type = "TypeError"
                 THEN generated
                 ELSE [df |-> loaded, file |-> file, source |-> "loaded"]

(***************************************************************************)
(* Tables the application runs on: what get_warehouse_data() hands to the  *)
(* page, generated under a small layout.                                   *)
(***************************************************************************)
SessionLayout == [zones |-> <<"A", "K">>, rows |-> 1, cols |-> 2, depth |-> 1, docks |-> 0]
FilterLayout == [zones |-> <<"A", "K">>, rows |-> 1, cols |-> 2, depth |-> 1, docks |-> 1]

SessionTables ==
    {generate_realistic_warehouse(SessionLayout, tp) :
        tp \in {t \in Tapes({RandHigh}) : t.pick = 1}}

FilterTables ==
    {generate_realistic_warehouse(FilterLayout, tp) :
        tp \in {t \in Tapes({RandLow, RandLow + 2}) : t.pick = 1}}

\* the layout of the tables the views and the report run on: two depth
\* slots per footprint, one dock
PageLayout == [zones |-> <<"A", "K">>, rows |-> 1, cols |-> 1, depth |-> 2, docks |-> 1]

\* tapes for the page tables: any outcome for the first depth slot, an empty
\* or a full second one
PageTapes ==
    {t \in Tapes(RandLow..RandHigh) : t.pick = 1 /\ t.slots[2].quantity \in {0, RandHigh}}

\* a file that holds the header line and no row
HeaderOnlyFile == FileOf(<<>>)

\* tables of the Tab 2 report: generated on the first run over an absent
\* file, or read from a file without rows
ReportTables ==
    {get_warehouse_data(NoFile, generate_realistic_warehouse(PageLayout, tp)).df :
        tp \in PageTapes}
    \cup {get_warehouse_data(HeaderOnlyFile, <<>>).df}

\* the file with the colour cell of its first row replaced by a text
WithColorText(file, text) ==
    FileOf([i \in DOMAIN file.rows |->
               IF i = 1 THEN [file.rows[i] EXCEPT !.color = text] ELSE file.rows[i]])

\* tapes for the view tables: any outcome for the first depth slot, a full
\* second one
ViewTapes ==
    {t \in Tapes(RandLow..RandHigh) : t.pick = 1 /\ t.slots[2].quantity = RandHigh}

\* what get_warehouse_data() finds on the first run of the views: no file,
\* or a file whose first colour cell holds an int or a list of two
ViewLoads ==
    LET fresh(tp) == generate_realistic_warehouse(PageLayout, tp)
    IN  {get_warehouse_data(NoFile, fresh(tp)) : tp \in ViewTapes}
        \cup {get_warehouse_data(WithColorText(to_csv(fresh(tp)), text), <<>>) :
                 tp \in ViewTapes, text \in {"5", "[0, 0]"}}

\* the file with the product_type cell of its first row left empty
WithoutProductType(file) ==
    FileOf([i \in DOMAIN file.rows |->
               IF i = 1 THEN [file.rows[i] EXCEPT !.product_type = ""] ELSE file.rows[i]])

\* tapes of the tables the store specification generates
StoreTapes == Tapes({RandLow, RandHigh})

\* what warehouse_data.csv may hold when a session starts: nothing, a table
\* an earlier process wrote, such a file with one cell edited, or no rows
StoreFiles ==
    LET written == {to_csv(generate_realistic_warehouse(PageLayout, tp)) : tp \in StoreTapes}
    IN  {NoFile, HeaderOnlyFile}
        \cup written
        \cup {WithColorText(file, text) : file \in written, text \in BadColorTexts \cup {""}}
        \cup {WithoutProductType(file) : file \in written}

Range(seq) == {seq[i] : i \in DOMAIN seq}

\* the empty dict
EmptyDict == [k \in {} |-> 0]
\* d[k] = v
DictSet(d, k, v) == [x \in (DOMAIN d) \cup {k} |-> IF x = k THEN v ELSE d[x]]
\* del d[k]
DictDel(d, k) == [x \in (DOMAIN d) \ {k} |-> d[x]]

RECURSIVE SeqMax(_)
SeqMax(seq) ==
    IF seq = <<>> THEN 0
    ELSE LET m == SeqMax(Tail(seq)) IN IF Head(seq) > m THEN Head(seq) ELSE m

\* app.py 101: all_zones (as a set; the page sorts it for display)
all_zones(table) == {r.zone : r \in Range(table)}
\* app.py 109-110: product_types
product_types(table) == {r.product_type : r \in Range(table)}
\* app.py 120: int(df['quantity'].max())
max_quantity(table) == SeqMax([i \in DOMAIN table |-> table[i].quantity])

(***************************************************************************)
(* Tab 1: the record filter (app.py 124-130).                              *)
(***************************************************************************)
\* a mask that reads an empty selection as "no filter"
FilterMaskEmptyIsAll(r, zones, products, min_stock, max_stock) ==
    /\ zones = {} \/ r.zone \in zones
    /\ products = {} \/ r.product_type \in products
    /\ r.quantity >= min_stock
    /\ r.quantity <= max_stock

\* the boolean mask of one row
FilterMask(r, zones, products, min_stock, max_stock) ==
    /\ r.zone \in zones
    /\ r.product_type \in products
    /\ r.quantity >= min_stock
    /\ r.quantity <= max_stock

\* a filter whose upper bound is the table's own maximum, exclusive
ApplyFilterBelowTableMax(table, zones, products, min_stock, max_stock) ==
    SelectSeq(table, LAMBDA r : /\ r.zone \in zones
                                /\ r.product_type \in products
                                /\ r.quantity >= min_stock
                                /\ r.quantity < max_quantity(table))

\* df[mask]: the rows whose mask is true, in table order
ApplyFilter(table, zones, products, min_stock, max_stock) ==
    SelectSeq(table, LAMBDA r : FilterMask(r, zones, products, min_stock, max_stock))

(***************************************************************************)
(* Sidebar statistics over filtered_df (app.py 134-150).                   *)
(***************************************************************************)
RECURSIVE SeqSum(_)
SeqSum(seq) == IF seq = <<>> THEN 0 ELSE Head(seq) + SeqSum(Tail(seq))

\* the rows of one groupby('zone') group, in table order
ZoneGroup(table, zone_id) == SelectSeq(table, LAMBDA r : r.zone = zone_id)

\* app.py 134: total_locations
total_locations(table) == Len(table)
\* app.py 137: total_stock
total_stock(table) == SeqSum([i \in DOMAIN table |-> table[i].quantity])

\* zone statistics that count and sum the filled locations only
ZoneStatsFilledOnly(table) ==
    [zone_id \in all_zones(table) |->
        LET group == SelectSeq(ZoneGroup(table, zone_id), LAMBDA r : r.quantity > 0)
        IN  [Locations |-> Len(group),
             Stock |-> SeqSum([i \in DOMAIN group |-> group[i].quantity])]]

\* app.py 147-150: zone_stats, one row per zone of the table
zone_stats(table) ==
    [zone_id \in all_zones(table) |->
        LET group == ZoneGroup(table, zone_id)
        IN  [Locations |-> Len(group),
             Stock |-> SeqSum([i \in DOMAIN group |-> group[i].quantity])]]

(***************************************************************************)
(* Tab 1: the Stock Level Analysis masks (app.py 188-192).                 *)
(***************************************************************************)
\* app.py 188-189: the mask of understock_count
IsUnderstock(quantity, understock_threshold) ==
    quantity > 0 /\ quantity <= understock_threshold
\* app.py 190: the mask of overstock_count
IsOverstock(quantity, overstock_threshold) == quantity >= overstock_threshold

\* a normal mask that is closed at the overstock threshold
IsNormalStockClosed(quantity, understock_threshold, overstock_threshold) ==
    quantity > understock_threshold /\ quantity <= overstock_threshold

\* app.py 191-192: the mask of normal_count
IsNormalStock(quantity, understock_threshold, overstock_threshold) ==
    quantity > understock_threshold /\ quantity < overstock_threshold

(***************************************************************************)
(* The views (visualization.py).  A figure is the set of its location      *)
(* marks; a mark names the row of the table it was drawn from.             *)
(***************************************************************************)
\* f'rgb({c[0]}, {c[1]}, {c[2]})'
RgbText(items) ==
    "rgb(" \o ToString(items[1]) \o ", " \o ToString(items[2]) \o ", "
           \o ToString(items[3]) \o ")"

\* isinstance(color, list) and len(color) >= 3
IsColorList(color) == color.type = "list" /\ Len(color.items) >= 3

\* visualization.py 62-67, 209-213: the colour of an empty location's mark
EmptyColor(color) ==
    IF IsColorList(color) THEN RgbText(color.items) ELSE "rgb(220, 220, 220)"

\* a colour function that tests the overstock condition first
GetColorOverstockFirst(quantity, highlight_overstock, highlight_understock, overstock_threshold, understock_threshold, base_color) ==
    IF quantity = 0 THEN "rgb(220, 220, 220)"
    ELSE IF highlight_overstock /\ quantity >= overstock_threshold
         THEN "rgb(255, 215, 0)"
    ELSE IF highlight_understock /\ quantity > 0 /\ quantity <= understock_threshold
         THEN "rgb(255, 0, 0)"
    ELSE IF IsColorList(base_color) THEN RgbText(base_color.items)
    ELSE "rgb(0, 0, 255)"

\* visualization.py 28-45: get_color_by_stock_level
get_color_by_stock_level(quantity, highlight_overstock, highlight_understock, overstock_threshold, understock_threshold, base_color) ==
    IF quantity = 0 THEN "rgb(220, 220, 220)"
    ELSE IF highlight_understock /\ quantity > 0 /\ quantity <= understock_threshold
         THEN "rgb(255, 0, 0)"
    ELSE IF highlight_overstock /\ quantity >= overstock_threshold
         THEN "rgb(255, 215, 0)"
    ELSE IF IsColorList(base_color) THEN RgbText(base_color.items)
    ELSE "rgb(0, 0, 255)"

\* visualization.py 79, 124, 221, 260: the depth line of the hover text; any
\* value but the empty string is true, NaN included
DepthText(depth_info) ==
    IF depth_info # "" THEN "<br>Depth: " \o depth_info ELSE ""

\* visualization.py 57-136, 206-270: the mark of the row at index i, drawn
\* as an empty location or as a filled one
Mark(table, i, hl) ==
    LET row == table[i]
    IN  [index |-> i,
         zone |-> row.zone,
         x |-> row.x,
         y |-> row.y,
         quantity |-> row.quantity,
         color |-> IF row.quantity = 0
                   THEN EmptyColor(row.color)
                   ELSE get_color_by_stock_level(row.quantity, hl.highlight_overstock,
                            hl.highlight_understock, hl.overstock_threshold,
                            hl.understock_threshold, row.color),
         opacity_pct |-> IF row.quantity = 0 THEN 50 ELSE 100,
         depth_text |-> DepthText(row.depth_info)]

\* a 2D view that keeps every row
KeptAll(table) == DOMAIN table

\* visualization.py 204: df[df['zone'] == zone].drop_duplicates(['x', 'y']),
\* the indices of the rows kept over all zones
Kept2D(table) ==
    {i \in DOMAIN table :
        \A j \in 1..(i - 1) :
            ~(table[j].zone = table[i].zone /\ table[j].x = table[i].x
                /\ table[j].y = table[i].y)}

\* visualization.py 47-136: the location marks of create_3d_warehouse_plotly
create_3d_warehouse_plotly(table, hl) == {Mark(table, i, hl) : i \in DOMAIN table}

\* visualization.py 197-270: the location marks of create_2d_warehouse_map
create_2d_warehouse_map(table, hl) == {Mark(table, i, hl) : i \in Kept2D(table)}

(***************************************************************************)
(* Tab 2: the inventory level report (app.py 215-508).                     *)
(***************************************************************************)
\* a bin edge of pd.cut: a number or float('inf')
Edge(v) == [inf |-> FALSE, v |-> v]
PosInf == [inf |-> TRUE, v |-> 0]

\* pd.cut(value, bins, labels) with the default right=True: the label of the
\* bin (bins[i], bins[i + 1]] the value lies in, NaN if it lies in none
BinsOf(value, bins) ==
    {i \in 1..(Len(bins) - 1) :
        /\ ~bins[i].inf /\ bins[i].v < value
        /\ bins[i + 1].inf \/ value <= bins[i + 1].v}

pd_cut(value, bins, labels) ==
    IF BinsOf(value, bins) # {}
    THEN labels[CHOOSE i \in BinsOf(value, bins) : TRUE]
    ELSE NaN

\* app.py 361-362: the thresholds of the stock level chart
chart_low_threshold == 5
chart_high_threshold == 15

\* app.py 366-370: product_data_copy['stock_level'] of one quantity
stock_level_bins ==
    <<Edge(-1), Edge(0), Edge(chart_low_threshold), Edge(chart_high_threshold), PosInf>>

stock_level(quantity) ==
    pd_cut(quantity, stock_level_bins, <<"Empty", "Low", "Normal", "High">>)

\* app.py 287: product_data
product_data(table, selected_product) ==
    SelectSeq(table, LAMBDA r : r.product_type = selected_product)

\* app.py 408: the mask of low_stock
IsLowStock(quantity, low_threshold) == quantity > 0 /\ quantity <= low_threshold
\* app.py 438: the mask of high_stock
IsHighStock(quantity, high_threshold) == quantity >= high_threshold

(***************************************************************************)
(* The ratios of the page.  A result is a number, kept in thousandths, or   *)
(* what the division produced in its place.                                *)
(***************************************************************************)
Number(v) == [kind |-> "number", v |-> v]
ZeroDivisionError == [kind |-> "ZeroDivisionError", v |-> 0]
NaNResult == [kind |-> "nan", v |-> 0]
InfResult == [kind |-> "inf", v |-> 0]

\* a / b of two Python numbers: raises ZeroDivisionError on b = 0
PyDiv(a, b) == IF b = 0 THEN ZeroDivisionError ELSE Number((1000 * a) \div b)

\* a / b of two pandas floats: 0 / 0 is NaN and x / 0 is inf
PandasDiv(a, b) ==
    IF b = 0 THEN (IF a = 0 THEN NaNResult ELSE InfResult)
    ELSE Number((1000 * a) \div b)

\* Series.fillna(0)
FillNa0(result) == IF result.kind = "nan" THEN Number(0) ELSE result

\* len(df[df['quantity'] > 0])
FilledCount(table) == Len(SelectSeq(table, LAMBDA r : r.quantity > 0))

\* app.py 228: filled_locations_pct
filled_locations_pct(table) == PyDiv(FilledCount(table), Len(table))

\* the rows of one groupby('location_type') group
LocationTypeGroup(table, location_type) ==
    SelectSeq(table, LAMBDA r : r.location_type = location_type)

\* app.py 258: avg_per_location of a group x
avg_per_location(x) ==
    IF Len(x) > 0 THEN PyDiv(total_stock(x), Len(x)) ELSE Number(0)

\* app.py 259: utilization of a group x
utilization(x) ==
    IF Len(x) > 0 THEN PyDiv(FilledCount(x), Len(x)) ELSE Number(0)

\* app.py 409-410: low_stock_pct
low_stock_pct(table, low_threshold) ==
    IF FilledCount(table) > 0
    THEN PyDiv(Len(SelectSeq(table, LAMBDA r : IsLowStock(r.quantity, low_threshold))),
               FilledCount(table))
    ELSE Number(0)

\* app.py 439-440: high_stock_pct
high_stock_pct(table, high_threshold) ==
    IF FilledCount(table) > 0
    THEN PyDiv(Len(SelectSeq(table, LAMBDA r : IsHighStock(r.quantity, high_threshold))),
               FilledCount(table))
    ELSE Number(0)

\* app.py 188-189: understock_count over a table
understock_count(table, understock_threshold) ==
    Len(SelectSeq(table, LAMBDA r : IsUnderstock(r.quantity, understock_threshold)))

\* app.py 190: overstock_count over a table
overstock_count(table, overstock_threshold) ==
    Len(SelectSeq(table, LAMBDA r : IsOverstock(r.quantity, overstock_threshold)))

\* app.py 191-192: normal_count over a table
normal_count(table, understock_threshold, overstock_threshold) ==
    Len(SelectSeq(table, LAMBDA r : IsNormalStock(r.quantity, understock_threshold,
                                                  overstock_threshold)))

\* app.py 188-200: the three "% of filled" figures of the Stock Level Analysis
stock_level_pcts(table, understock_threshold, overstock_threshold) ==
    LET filled_locations == FilledCount(table)
        pct(count) == IF filled_locations > 0 THEN PyDiv(count, filled_locations)
                      ELSE Number(0)
    IN  [understock |-> pct(understock_count(table, understock_threshold)),
         normal |-> pct(normal_count(table, understock_threshold, overstock_threshold)),
         overstock |-> pct(overstock_count(table, overstock_threshold))]

\* app.py 467-477: the cv of one product type, as the square of
\* std_quantity / avg_quantity; std is the sample deviation, NaN for a group
\* of one row
cv_squared(table, product_type) ==
    LET group == product_data(table, product_type)
        n == Len(group)
        sum == total_stock(group)
        sumsq == SeqSum([i \in DOMAIN group |-> group[i].quantity * group[i].quantity])
    IN  FillNa0(IF n < 2 THEN NaNResult
                ELSE PandasDiv(n * (n * sumsq - sum * sum), (n - 1) * sum * sum))

(***************************************************************************)
(* Tab 3: the stocktaking session.                                         *)
(***************************************************************************)
FocusOptions == {"Overstock Locations", "All Locations", "Empty Locations"}

\* app.py 31-32, 521: datetime.datetime.now().strftime("%Y-%m-%d") on the day
\* of the session
today == "2024-05-01"

\* the days the "Stocktaking Date" date input is set to
StocktakingDates == {today, "2024-05-02"}

\* the texts typed into the "Worker Name" text input
WorkerNames == {"", "Ana"}

\* app.py 559-564: the default of the "Overstock Threshold" slider
stocktake_threshold == 15

\* the values the slider (min_value=10, max_value=50) is moved to
StocktakeThresholds == {stocktake_threshold, 50}

\* app.py 574-591: the mask of stocktake_df for one row
InStocktakeScope(r, zones, products, focus) ==
    /\ r.zone \in zones
    /\ r.product_type \in products
    /\ CASE focus = "Overstock Locations" -> r.quantity >= ui.stocktake_threshold
         [] focus = "Empty Locations" -> r.quantity = 0
         [] OTHER -> TRUE

\* indices of the rows of stocktake_df
stocktake_rows == {i \in DOMAIN df : InStocktakeScope(df[i], stocktake_zones, stocktake_products, stocktake_focus)}

\* app.py 621: is_verified for the row at index i
is_verified(i) == df[i].location_id \in DOMAIN verified_locations

\* app.py 605: len(stocktake_df)
total_to_check == Cardinality(stocktake_rows)

\* the count taken over the whole verification map, len(verified_locations)
CompletedAnywhere == Cardinality(DOMAIN verified_locations)

\* app.py 606: the rows of stocktake_df whose location_id is a key of the map
completed == Cardinality({i \in stocktake_rows : is_verified(i)})

\* app.py 608: the value of the stocktaking progress bar
stocktake_progress ==
    IF total_to_check > 0 THEN PyDiv(completed, total_to_check) ELSE Number(0)

\* app.py 697-699: df[df['location_id'] == loc_id].iloc[0]
FirstRow(table, loc_id) ==
    table[CHOOSE i \in DOMAIN table :
            /\ table[i].location_id = loc_id
            /\ \A j \in 1..(i - 1) : table[j].location_id # loc_id]

\* a row of verified_data dated with the day the report is drawn up
ReportRowDatedToday(table, verified, note, loc_id) ==
    LET row_data == FirstRow(table, loc_id)
    IN  [location_id |-> loc_id,
         zone |-> row_data.zone,
         product_type |-> row_data.product_type,
         location_type |-> row_data.location_type,
         system_quantity |-> row_data.quantity,
         actual_quantity |-> verified[loc_id],
         difference |-> verified[loc_id] - row_data.quantity,
         notes |-> IF loc_id \in DOMAIN note THEN note[loc_id] ELSE "",
         verification_date |-> today,
         verified_by |-> ui.worker_name]

\* app.py 700-711: one row of verified_data
ReportRow(table, verified, note, loc_id) ==
    LET row_data == FirstRow(table, loc_id)
    IN  [location_id |-> loc_id,
         zone |-> row_data.zone,
         product_type |-> row_data.product_type,
         location_type |-> row_data.location_type,
         system_quantity |-> row_data.quantity,
         actual_quantity |-> verified[loc_id],
         difference |-> verified[loc_id] - row_data.quantity,
         notes |-> IF loc_id \in DOMAIN note THEN note[loc_id] ELSE "",
         verification_date |-> ui.stocktaking_date,
         verified_by |-> ui.worker_name]

\* app.py 695-711: verified_data, the rows of the stocktaking report
Report(table, verified, note) ==
    {ReportRow(table, verified, note, loc_id) :
        loc_id \in {k \in DOMAIN verified : \E i \in DOMAIN table : table[i].location_id = k}}

report == Report(df, verified_locations, notes)

NoOp == [op |-> "none", idx |-> 0, qty |-> 0, notes |-> ""]


sessionVars == <<df, verified_locations, notes, stocktake_zones, stocktake_products,
                 stocktake_focus, last>>
filterVars == <<selected_zones, selected_products, stock_range, filtered_df>>
genVars == <<locations, gen, tape>>
pageVars == <<ui, store>>

\* app.py 280: the options of the "Select Product Type" selectbox
product_options(table) == product_types(table)

\* the product types in the order sorted() puts them
ProductOrder ==
    <<"Accessories", "Athletic Wear", "Designer Brands", "Dresses", "Incoming Shipments",
      "Jackets", "Jeans", "Kids Clothing", "New Arrivals", "Outbound Shipping",
      "Plus Size Collection", "Premium Apparel", "Returns Processing", "Sale Items",
      "Seasonal Items", "Shoes", "Socks", "Sweaters", "T-shirts", "Underwear", "Unknown">>

\* sorted(...)[0]: the first option of the selectbox
FirstOption(options) ==
    ProductOrder[CHOOSE i \in DOMAIN ProductOrder :
                    /\ ProductOrder[i] \in options
                    /\ \A j \in 1..(i - 1) : ProductOrder[j] \notin options]

\* app.py 31-32, 67-86, 280, 405, 435, 522-530, 559-564: the values the widgets hold on
\* the first run
UiDefault(table) ==
    [highlight_understock |-> FALSE, understock_threshold |-> 5,
     highlight_overstock |-> FALSE, overstock_threshold |-> 15,
     selected_product |-> FirstOption(product_options(table)),
     low_threshold |-> 5, high_threshold |-> 15,
     stocktaking_date |-> today, worker_name |-> "",
     stocktake_threshold |-> stocktake_threshold,
     error |-> "none"]

\* the widgets of a script run that has not reached them
UiIdle ==
    [highlight_understock |-> FALSE, understock_threshold |-> 5,
     highlight_overstock |-> FALSE, overstock_threshold |-> 15,
     selected_product |-> None,
     low_threshold |-> 5, high_threshold |-> 15,
     stocktaking_date |-> today, worker_name |-> "",
     stocktake_threshold |-> stocktake_threshold,
     error |-> "none"]

\* no session yet: the file as the last process left it
StoreIdle(file) == [file |-> file, data_loaded |-> FALSE, writes |-> 0, saved |-> <<>>]

\* app.py 19-36: the store after the first run called get_warehouse_data
StoreAfter(result) ==
    [file |-> result.file, data_loaded |-> TRUE,
     writes |-> IF result.source = "generated" THEN 1 ELSE 0,
     saved |-> IF result.source = "generated" THEN result.df ELSE <<>>]

\* app.py 19-36 over an absent file: the table was generated and written
StoreGenerated(table) ==
    [file |-> to_csv(table), data_loaded |-> TRUE, writes |-> 1, saved |-> table]

IdleTape ==
    [slots |-> <<[has_stock |-> FALSE, quantity |-> 0],
                 [has_stock |-> FALSE, quantity |-> 0]>>, pick |-> 1]

\* the generator at rest
GenIdle ==
    /\ locations = <<>>
    /\ gen = [pc |-> "idle", zi |-> 0, row |-> 0, col |-> 0, depth |-> 0, i |-> 0]
    /\ tape = IdleTape

\* app.py 19-38 and the widget defaults of the first script run over a table
\* (the Tab 3 multiselects default to the first three options; the tables
\* here have fewer, so every option is selected)
PageInit(table) ==
    /\ df = table
    /\ verified_locations = EmptyDict
    /\ notes = EmptyDict
    /\ stocktake_zones = all_zones(table)
    /\ stocktake_products = product_types(table)
    /\ stocktake_focus = "Overstock Locations"
    /\ selected_zones = all_zones(table)
    /\ selected_products = product_types(table)
    /\ stock_range = <<0, max_quantity(table)>>
    /\ filtered_df = ApplyFilter(table, all_zones(table), product_types(table),
                                 0, max_quantity(table))
    /\ ui = UiDefault(table)
    /\ last = NoOp

\* the first script run over a table without rows: app.py 120 raises
\* ValueError on int(nan), and the run ends before the widgets below it
PageFailed(table) ==
    /\ df = table
    /\ verified_locations = EmptyDict
    /\ notes = EmptyDict
    /\ stocktake_zones = {}
    /\ stocktake_products = {}
    /\ stocktake_focus = "Overstock Locations"
    /\ selected_zones = all_zones(table)
    /\ selected_products = product_types(table)
    /\ stock_range = <<0, 0>>
    /\ filtered_df = <<>>
    /\ ui = [UiIdle EXCEPT !.error = "ValueError"]
    /\ last = NoOp

(***************************************************************************)
(* Spec: the stocktaking session.                                          *)
(***************************************************************************)
Init ==
    /\ GenIdle
    /\ \E table \in SessionTables : PageInit(table) /\ store = StoreGenerated(table)

\* Verify storing the widget's default (the system quantity), not the typed value
VerifyStoresDefault(i, q, n) ==
    /\ i \in stocktake_rows
    /\ ~is_verified(i)
    /\ verified_locations' = DictSet(verified_locations, df[i].location_id, df[i].quantity)
    /\ notes' = DictSet(notes, df[i].location_id, "")
    /\ last' = [op |-> "verify", idx |-> i, qty |-> q, notes |-> n]
    /\ UNCHANGED <<df, stocktake_zones, stocktake_products, stocktake_focus>>
    /\ UNCHANGED <<genVars, filterVars, pageVars>>

\* Verify offered for every listed row, verified or not
VerifyUnguarded(i, q, n) ==
    /\ i \in stocktake_rows
    /\ verified_locations' = DictSet(verified_locations, df[i].location_id, q)
    /\ notes' = DictSet(notes, df[i].location_id, n)
    /\ last' = [op |-> "verify", idx |-> i, qty |-> q, notes |-> n]
    /\ UNCHANGED <<df, stocktake_zones, stocktake_products, stocktake_focus>>
    /\ UNCHANGED <<genVars, filterVars, pageVars>>

\* Verify that stores the notes only when some were typed
VerifyNotesIfTyped(i, q, n) ==
    /\ i \in stocktake_rows
    /\ ~is_verified(i)
    /\ verified_locations' = DictSet(verified_locations, df[i].location_id, q)
    /\ notes' = IF n # "" THEN DictSet(notes, df[i].location_id, n) ELSE notes
    /\ last' = [op |-> "verify", idx |-> i, qty |-> q, notes |-> n]
    /\ UNCHANGED <<df, stocktake_zones, stocktake_products, stocktake_focus>>
    /\ UNCHANGED <<genVars, filterVars, pageVars>>

\* app.py 671-679: the Verify button of the row at index i
Verify(i, q, n) ==
    /\ i \in stocktake_rows
    /\ ~is_verified(i)
    /\ verified_locations' = DictSet(verified_locations, df[i].location_id, q)
    /\ notes' = DictSet(notes, df[i].location_id, n)
    /\ last' = [op |-> "verify", idx |-> i, qty |-> q, notes |-> n]
    /\ UNCHANGED <<df, stocktake_zones, stocktake_products, stocktake_focus>>
    /\ UNCHANGED <<genVars, filterVars, pageVars>>

\* Edit that removes the quantity and leaves the notes behind
EditKeepsNotes(i) ==
    /\ i \in stocktake_rows
    /\ is_verified(i)
    /\ verified_locations' = DictDel(verified_locations, df[i].location_id)
    /\ notes' = notes
    /\ last' = [op |-> "edit", idx |-> i, qty |-> 0, notes |-> ""]
    /\ UNCHANGED <<df, stocktake_zones, stocktake_products, stocktake_focus>>
    /\ UNCHANGED <<genVars, filterVars, pageVars>>

\* app.py 680-686: the Edit button of the row at index i
Edit(i) ==
    /\ i \in stocktake_rows
    /\ is_verified(i)
    /\ verified_locations' = DictDel(verified_locations, df[i].location_id)
    /\ notes' = IF df[i].location_id \in DOMAIN notes
                THEN DictDel(notes, df[i].location_id) ELSE notes
    /\ last' = [op |-> "edit", idx |-> i, qty |-> 0, notes |-> ""]
    /\ UNCHANGED <<df, stocktake_zones, stocktake_products, stocktake_focus>>
    /\ UNCHANGED <<genVars, filterVars, pageVars>>

\* Reset that clears the quantities and leaves the notes behind
ResetKeepsNotes ==
    /\ DOMAIN verified_locations # {}
    /\ report # {}
    /\ verified_locations' = EmptyDict
    /\ notes' = notes
    /\ last' = [op |-> "reset", idx |-> 0, qty |-> 0, notes |-> ""]
    /\ UNCHANGED <<df, stocktake_zones, stocktake_products, stocktake_focus>>
    /\ UNCHANGED <<genVars, filterVars, pageVars>>

\* app.py 691, 713, 727-732: the Reset Stocktaking Session button
Reset ==
    /\ DOMAIN verified_locations # {}
    /\ report # {}
    /\ verified_locations' = EmptyDict
    /\ notes' = EmptyDict
    /\ last' = [op |-> "reset", idx |-> 0, qty |-> 0, notes |-> ""]
    /\ UNCHANGED <<df, stocktake_zones, stocktake_products, stocktake_focus>>
    /\ UNCHANGED <<genVars, filterVars, pageVars>>

\* app.py 539-543: the worker changes "Select Zones to Check"
SetStocktakeZones(zones) ==
    /\ zones # stocktake_zones
    /\ stocktake_zones' = zones
    /\ UNCHANGED <<df, verified_locations, notes, stocktake_products, stocktake_focus, last>>
    /\ UNCHANGED <<genVars, filterVars, pageVars>>

\* app.py 546-550: the worker changes "Product Types to Check"
SetStocktakeProducts(products) ==
    /\ products # stocktake_products
    /\ stocktake_products' = products
    /\ UNCHANGED <<df, verified_locations, notes, stocktake_zones, stocktake_focus, last>>
    /\ UNCHANGED <<genVars, filterVars, pageVars>>

\* "Focus On" written so that a change of focus starts the session afresh
SetStocktakeFocusFresh(focus) ==
    /\ focus # stocktake_focus
    /\ stocktake_focus' = focus
    /\ verified_locations' = EmptyDict
    /\ notes' = EmptyDict
    /\ UNCHANGED <<df, stocktake_zones, stocktake_products, last>>
    /\ UNCHANGED <<genVars, filterVars, pageVars>>

\* app.py 553-556: the worker changes "Focus On"
SetStocktakeFocus(focus) ==
    /\ focus # stocktake_focus
    /\ stocktake_focus' = focus
    /\ UNCHANGED <<df, verified_locations, notes, stocktake_zones, stocktake_products, last>>
    /\ UNCHANGED <<genVars, filterVars, pageVars>>

Next ==
    \/ \E i \in DOMAIN df, q \in 0..MaxActual, n \in NoteTexts : Verify(i, q, n)
    \/ \E i \in DOMAIN df : Edit(i)
    \/ Reset
    \/ \E zones \in SUBSET all_zones(df) : SetStocktakeZones(zones)
    \/ \E products \in SUBSET product_types(df) : SetStocktakeProducts(products)
    \/ \E focus \in FocusOptions : SetStocktakeFocus(focus)

Spec == Init /\ [][Next]_vars

(***************************************************************************)
(* SpecSession: the stocktaking session with its date and worker name.     *)
(***************************************************************************)
\* app.py 522-527: the worker changes "Stocktaking Date"; line 527 copies the
\* widget's value to st.session_state['stocktaking_date'] on every run
SetStocktakingDate(date) ==
    /\ date # ui.stocktaking_date
    /\ ui' = [ui EXCEPT !.stocktaking_date = date]
    /\ UNCHANGED <<store, genVars, filterVars, sessionVars>>

\* app.py 530: the worker types into "Worker Name"
SetWorkerName(name) ==
    /\ name # ui.worker_name
    /\ ui' = [ui EXCEPT !.worker_name = name]
    /\ UNCHANGED <<store, genVars, filterVars, sessionVars>>

NextSession ==
    \/ \E i \in DOMAIN df, q \in 0..MaxActual, n \in NoteTexts : Verify(i, q, n)
    \/ \E i \in DOMAIN df : Edit(i)
    \/ Reset
    \/ \E focus \in FocusOptions : SetStocktakeFocus(focus)
    \/ \E date \in StocktakingDates : SetStocktakingDate(date)
    \/ \E name \in WorkerNames : SetWorkerName(name)

SpecSession == Init /\ [][NextSession]_vars

(***************************************************************************)
(* SpecFilter: the Tab 1 filter widgets; every change reruns the script,   *)
(* which recomputes filtered_df.                                           *)
(***************************************************************************)
InitFilter ==
    /\ GenIdle
    /\ \E table \in FilterTables : PageInit(table) /\ store = StoreGenerated(table)

SelectZones(zones) ==
    /\ zones # selected_zones
    /\ selected_zones' = zones
    /\ filtered_df' = ApplyFilter(df, zones, selected_products,
                                  stock_range[1], stock_range[2])
    /\ UNCHANGED <<selected_products, stock_range>>
    /\ UNCHANGED <<genVars, sessionVars, pageVars>>

SelectProducts(products) ==
    /\ products # selected_products
    /\ selected_products' = products
    /\ filtered_df' = ApplyFilter(df, selected_zones, products,
                                  stock_range[1], stock_range[2])
    /\ UNCHANGED <<selected_zones, stock_range>>
    /\ UNCHANGED <<genVars, sessionVars, pageVars>>

SetStockRange(min_stock, max_stock) ==
    /\ min_stock <= max_stock
    /\ <<min_stock, max_stock>> # stock_range
    /\ stock_range' = <<min_stock, max_stock>>
    /\ filtered_df' = ApplyFilter(df, selected_zones, selected_products,
                                  min_stock, max_stock)
    /\ UNCHANGED <<selected_zones, selected_products>>
    /\ UNCHANGED <<genVars, sessionVars, pageVars>>

NextFilter ==
    \/ \E zones \in SUBSET all_zones(df) : SelectZones(zones)
    \/ \E products \in SUBSET product_types(df) : SelectProducts(products)
    \/ \E lo \in 0..max_quantity(df), hi \in 0..max_quantity(df) : SetStockRange(lo, hi)

SpecFilter == InitFilter /\ [][NextFilter]_vars

(***************************************************************************)
(* SpecScope: the stocktaking session next to every control of the page    *)
(* that changes what is listed: the Tab 3 scope widgets with the           *)
(* threshold slider, and the Tab 1 zone filter.                            *)
(***************************************************************************)
\* the first run over a table that has a stocked and an empty shelf slot
InitScope ==
    /\ GenIdle
    /\ \E table \in SessionTables :
           /\ \E i, j \in DOMAIN table : table[i].quantity > 0 /\ table[j].quantity = 0
           /\ PageInit(table)
           /\ store = StoreGenerated(table)

\* app.py 559-564: the worker moves the "Overstock Threshold" slider
SetStocktakeThreshold(value) ==
    /\ value # ui.stocktake_threshold
    /\ ui' = [ui EXCEPT !.stocktake_threshold = value]
    /\ UNCHANGED <<store, genVars, filterVars, sessionVars>>

NextScope ==
    \/ \E i \in DOMAIN df, q \in 0..MaxActual : Verify(i, q, "")
    \/ \E i \in DOMAIN df : Edit(i)
    \/ Reset
    \/ \E zones \in SUBSET all_zones(df) : SetStocktakeZones(zones)
    \/ \E products \in SUBSET product_types(df) : SetStocktakeProducts(products)
    \/ \E focus \in FocusOptions : SetStocktakeFocus(focus)
    \/ \E value \in StocktakeThresholds : SetStocktakeThreshold(value)
    \/ \E zones \in {{}, all_zones(df)} : SelectZones(zones)

SpecScope == InitScope /\ [][NextScope]_vars

(***************************************************************************)
(* SpecGen: generate_realistic_warehouse, one loop iteration per step.     *)
(***************************************************************************)
\* the page before any table is loaded
PageIdle ==
    /\ df = <<>>
    /\ verified_locations = EmptyDict
    /\ notes = EmptyDict
    /\ stocktake_zones = {}
    /\ stocktake_products = {}
    /\ stocktake_focus = "Overstock Locations"
    /\ selected_zones = {}
    /\ selected_products = {}
    /\ stock_range = <<0, 0>>
    /\ filtered_df = <<>>
    /\ ui = UiIdle
    /\ last = NoOp

InitGen ==
    /\ PageIdle
    /\ store = StoreIdle(NoFile)
    /\ locations = <<>>
    /\ gen = GenStart(GenLayout)
    /\ tape \in Tapes(RandLow..RandHigh)

\* lines 85-155: one iteration of the innermost zone loop
GenSlot ==
    /\ gen.pc = "zones"
    /\ locations' = GenIterate(GenLayout, tape, locations, gen).locations
    /\ gen' = GenIterate(GenLayout, tape, locations, gen).gen
    /\ UNCHANGED <<tape, sessionVars, filterVars, pageVars>>

\* lines 157-175: one iteration of the dock loop
GenDock ==
    /\ gen.pc = "docks"
    /\ locations' = GenIterate(GenLayout, tape, locations, gen).locations
    /\ gen' = GenIterate(GenLayout, tape, locations, gen).gen
    /\ UNCHANGED <<tape, sessionVars, filterVars, pageVars>>

\* line 177: return pd.DataFrame(locations)
GenReturn ==
    /\ gen.pc = "return"
    /\ gen' = [gen EXCEPT !.pc = "done"]
    /\ df' = locations
    /\ UNCHANGED <<locations, tape, verified_locations, notes, stocktake_zones,
                   stocktake_products, stocktake_focus, last, filterVars, pageVars>>

NextGen == GenSlot \/ GenDock \/ GenReturn

SpecGen == InitGen /\ [][NextGen]_vars

(***************************************************************************)
(* SpecReport: the Tab 2 widgets over a loaded table.                      *)
(***************************************************************************)
InitReport ==
    /\ GenIdle
    /\ \E table \in ReportTables :
          IF table = <<>>
          THEN PageFailed(table) /\ store = [StoreIdle(HeaderOnlyFile) EXCEPT !.data_loaded = TRUE]
          ELSE PageInit(table) /\ store = StoreGenerated(table)

\* app.py 282-285: the "Select Product Type" selectbox
SetSelectedProduct(product) ==
    /\ ui.error = "none"
    /\ product # ui.selected_product
    /\ ui' = [ui EXCEPT !.selected_product = product]
    /\ UNCHANGED <<genVars, sessionVars, filterVars, store>>

\* app.py 405: the "Low Stock Threshold" slider
SetLowThreshold(value) ==
    /\ ui.error = "none"
    /\ value # ui.low_threshold
    /\ ui' = [ui EXCEPT !.low_threshold = value]
    /\ UNCHANGED <<genVars, sessionVars, filterVars, store>>

\* app.py 435: the "High Stock Threshold" slider
SetHighThreshold(value) ==
    /\ ui.error = "none"
    /\ value # ui.high_threshold
    /\ ui' = [ui EXCEPT !.high_threshold = value]
    /\ UNCHANGED <<genVars, sessionVars, filterVars, store>>

NextReport ==
    \/ \E product \in product_options(df) : SetSelectedProduct(product)
    \/ \E value \in 1..10 : SetLowThreshold(value)
    \/ \E value \in 10..50 : SetHighThreshold(value)

SpecReport == InitReport /\ [][NextReport]_vars

(***************************************************************************)
(* SpecView: the highlight controls of Tab 1 over a loaded table; every    *)
(* change reruns the script, which redraws the figure from filtered_df.    *)
(***************************************************************************)
InitView ==
    /\ GenIdle
    /\ \E result \in ViewLoads : PageInit(result.df) /\ store = StoreAfter(result)

\* app.py 69: the "Highlight Understock" checkbox; the number input is
\* rendered only while it is ticked, so it restarts from its default
ToggleHighlightUnderstock ==
    /\ ui' = [ui EXCEPT !.highlight_understock = ~@, !.understock_threshold = 5]
    /\ UNCHANGED <<genVars, sessionVars, filterVars, store>>

\* app.py 70-76: the "Understock Threshold" number input
SetUnderstockThreshold(value) ==
    /\ ui.highlight_understock
    /\ value # ui.understock_threshold
    /\ ui' = [ui EXCEPT !.understock_threshold = value]
    /\ UNCHANGED <<genVars, sessionVars, filterVars, store>>

\* app.py 79: the "Highlight Overstock" checkbox
ToggleHighlightOverstock ==
    /\ ui' = [ui EXCEPT !.highlight_overstock = ~@, !.overstock_threshold = 15]
    /\ UNCHANGED <<genVars, sessionVars, filterVars, store>>

\* app.py 80-86: the "Overstock Threshold" number input
SetOverstockThreshold(value) ==
    /\ ui.highlight_overstock
    /\ value # ui.overstock_threshold
    /\ ui' = [ui EXCEPT !.overstock_threshold = value]
    /\ UNCHANGED <<genVars, sessionVars, filterVars, store>>

NextView ==
    \/ ToggleHighlightUnderstock
    \/ \E value \in 1..10 : SetUnderstockThreshold(value)
    \/ ToggleHighlightOverstock
    \/ \E value \in 10..50 : SetOverstockThreshold(value)

SpecView == InitView /\ [][NextView]_vars

\* app.py 167-183: the figures of the two visualization types
fig_3d == create_3d_warehouse_plotly(filtered_df, ui)
fig_2d == create_2d_warehouse_map(filtered_df, ui)

(***************************************************************************)
(* SpecStore: the data file and the session's cache (app.py 18-38).        *)
(***************************************************************************)
InitStore ==
    /\ GenIdle
    /\ PageIdle
    /\ \E file \in StoreFiles : store = StoreIdle(file)

\* app.py 27-36, 101-130 and the widget defaults: the session state and the
\* widgets after the first script run over a table; over a table without
\* rows the run ends at app.py 120
FirstRunPage(table) ==
    /\ df' = table
    /\ verified_locations' = EmptyDict
    /\ notes' = EmptyDict
    /\ stocktake_focus' = "Overstock Locations"
    /\ selected_zones' = all_zones(table)
    /\ selected_products' = product_types(table)
    /\ IF table = <<>>
       THEN /\ stocktake_zones' = {}
            /\ stocktake_products' = {}
            /\ stock_range' = <<0, 0>>
            /\ filtered_df' = <<>>
            /\ ui' = [UiIdle EXCEPT !.error = "ValueError"]
       ELSE /\ stocktake_zones' = all_zones(table)
            /\ stocktake_products' = product_types(table)
            /\ stock_range' = <<0, max_quantity(table)>>
            /\ filtered_df' = ApplyFilter(table, all_zones(table), product_types(table),
                                          0, max_quantity(table))
            /\ ui' = UiDefault(table)

\* app.py 19-36: the first script run of a session; the Regenerate button
\* is rendered and returns False, so get_warehouse_data() is called
FirstRun(tp) ==
    /\ ~store.data_loaded
    /\ LET result == get_warehouse_data(store.file,
                                        generate_realistic_warehouse(PageLayout, tp))
       IN  /\ FirstRunPage(result.df)
           /\ store' = [file |-> result.file,
                        data_loaded |-> TRUE,
                        writes |-> IF result.source = "generated"
                                   THEN store.writes + 1 ELSE store.writes,
                        saved |-> IF result.source = "generated"
                                  THEN result.df ELSE store.saved]
    /\ last' = [op |-> "load", idx |-> 0, qty |-> 0, notes |-> ""]
    /\ UNCHANGED genVars

\* app.py 19-38: the user clicks "Regenerate Warehouse Data", which is on
\* the page after the first run; in the rerun 'data_loaded' is in the
\* session state, so the else branch takes df from the session cache
ClickRegenerate ==
    /\ store.data_loaded
    /\ last.op = "load"
    /\ df' = df
    /\ last' = [op |-> "regenerate", idx |-> 0, qty |-> 0, notes |-> ""]
    /\ UNCHANGED <<genVars, filterVars, pageVars>>
    /\ UNCHANGED <<verified_locations, notes, stocktake_zones, stocktake_products,
                   stocktake_focus>>

\* app.py 37-38: a rerun for any other reason; the button is not rendered
Rerun ==
    /\ store.data_loaded
    /\ last.op # "rerun"
    /\ df' = df
    /\ last' = [op |-> "rerun", idx |-> 0, qty |-> 0, notes |-> ""]
    /\ UNCHANGED <<genVars, filterVars, pageVars>>
    /\ UNCHANGED <<verified_locations, notes, stocktake_zones, stocktake_products,
                   stocktake_focus>>

\* the browser session ends: the session state is gone, the file stays
NewSession ==
    /\ store.data_loaded
    /\ store' = [store EXCEPT !.data_loaded = FALSE]
    /\ df' = <<>>
    /\ verified_locations' = EmptyDict
    /\ notes' = EmptyDict
    /\ stocktake_zones' = {}
    /\ stocktake_products' = {}
    /\ stocktake_focus' = "Overstock Locations"
    /\ selected_zones' = {}
    /\ selected_products' = {}
    /\ stock_range' = <<0, 0>>
    /\ filtered_df' = <<>>
    /\ ui' = UiIdle
    /\ last' = NoOp
    /\ UNCHANGED genVars

NextStore ==
    \/ \E tp \in StoreTapes : FirstRun(tp)
    \/ ClickRegenerate
    \/ Rerun
    \/ NewSession

SpecStore == InitStore /\ [][NextStore]_vars


(***************************************************************************)
(* Properties.                                                             *)
(***************************************************************************)
\* the location id of the row the last handler acted on
LastId == df[last.idx].location_id

\* C1: right after Verify on a Pending row with quantity q >= 0 and notes n, the
\* row's location is Verified, the verification map holds q for its
\* location_id and the notes map holds n.
C1_VerifyStores ==
    last.op = "verify" =>
        /\ last.qty >= 0
        /\ is_verified(last.idx)
        /\ LastId \in DOMAIN verified_locations
        /\ verified_locations[LastId] = last.qty
        /\ LastId \in DOMAIN notes
        /\ notes[LastId] = last.notes

\* a Verify has stored a quantity that differs from the system quantity, with notes
C1_Witness ==
    /\ last.op = "verify"
    /\ last.qty # df[last.idx].quantity
    /\ last.notes = "damaged"

\* C2: right after Edit on a Verified row the location is Pending, neither map
\* holds its location_id and the report has no row for it.
C2_EditDiscards ==
    last.op = "edit" =>
        /\ ~is_verified(last.idx)
        /\ LastId \notin DOMAIN verified_locations
        /\ LastId \notin DOMAIN notes
        /\ \A r \in report : r.location_id # LastId

\* an Edit has run while another location stays verified
C2_Witness ==
    /\ last.op = "edit"
    /\ DOMAIN verified_locations # {}

\* C3: right after Reset no location is Verified, both maps are empty and the
\* report is empty.
C3_ResetClears ==
    last.op = "reset" =>
        /\ \A i \in DOMAIN df : ~is_verified(i)
        /\ verified_locations = EmptyDict
        /\ notes = EmptyDict
        /\ report = {}

\* a Reset has run
C3_Witness == last.op = "reset"

\* C4: the report has a row for each Verified location and none for a Pending
\* one; the row of the location just verified carries that record's quantity
\* as system_quantity, and difference = actual_quantity - system_quantity.
C4_ReportRows ==
    /\ \A i \in DOMAIN df :
          is_verified(i) <=> \E r \in report : r.location_id = df[i].location_id
    /\ \A r \in report : r.difference = r.actual_quantity - r.system_quantity
    /\ last.op = "verify" =>
          \E r \in report :
              /\ r.location_id = LastId
              /\ r.actual_quantity = last.qty
              /\ r.system_quantity = df[last.idx].quantity

\* the state and stored entry of the location record at index j
LocationState(verified, note, j) ==
    LET loc_id == df[j].location_id
    IN  [verified |-> loc_id \in DOMAIN verified,
         qty |-> IF loc_id \in DOMAIN verified THEN verified[loc_id] ELSE 0,
         notes |-> IF loc_id \in DOMAIN note THEN note[loc_id] ELSE ""]

\* C5: a Verify or Edit on one location record leaves the state and stored
\* entry of every other location record as it was.
C5_Independent ==
    [][(last' # last /\ last'.op \in {"verify", "edit"}) =>
          \A j \in DOMAIN df :
              j # last'.idx =>
                  LocationState(verified_locations', notes', j)
                      = LocationState(verified_locations, notes, j)]_vars

\* C6: no step overwrites a stored quantity or stored notes; a Verify step
\* happens only on a Pending row and an Edit step only on a Verified one.
C6_NoInvalidTransition ==
    [][/\ \A k \in (DOMAIN verified_locations) \cap (DOMAIN verified_locations') :
              verified_locations'[k] = verified_locations[k]
       /\ \A k \in (DOMAIN notes) \cap (DOMAIN notes') : notes'[k] = notes[k]
       /\ (last' # last /\ last'.op = "verify") => ~is_verified(last'.idx)
       /\ (last' # last /\ last'.op = "edit") => is_verified(last'.idx)
       /\ (last' = last) => (verified_locations' = verified_locations /\ notes' = notes)
      ]_vars

\* a listed Verified row whose stored quantity differs from the system quantity
\* next to a listed Pending row
C6_Witness ==
    \E i, j \in stocktake_rows :
        /\ is_verified(i)
        /\ verified_locations[df[i].location_id] # df[i].quantity
        /\ ~is_verified(j)

\* C7: no two generated records have the same location_id.
C7_UniqueLocationIds ==
    \A i, j \in DOMAIN locations :
        i # j => locations[i].location_id # locations[j].location_id

\* C8: in every generated record quantity = 0 exactly when product_id is
\* null; an occupied slot has a quantity in 1..20; a DOCK record has quantity
\* 0 and no product.
RecordOk(r) ==
    /\ (r.quantity = 0) <=> (r.product_id = None)
    /\ r.product_id # None => r.quantity \in 1..20
    /\ r.quantity \in 0..20
    /\ r.zone = "DOCK" => (r.quantity = 0 /\ r.product_id = None)

C8_EmptySlot ==
    /\ \A i \in DOMAIN locations : RecordOk(locations[i])
    /\ \A i \in DOMAIN df : RecordOk(df[i])

\* a returned table with an empty slot, slots holding 1 and 20, and a dock
C8_Witness ==
    /\ gen.pc = "done"
    /\ \E i, j \in DOMAIN df :
          /\ df[i].zone # "DOCK" /\ df[i].quantity = 0
          /\ df[j].quantity = 20 /\ df[j].product_id # None
    /\ \E i \in DOMAIN df : df[i].zone = "DOCK"

\* the documented filter contract: zone in zones, product_type in
\* product_types, min <= quantity <= max
Passes(r) ==
    /\ r.zone \in selected_zones
    /\ r.product_type \in selected_products
    /\ stock_range[1] <= r.quantity
    /\ r.quantity <= stock_range[2]

\* C9: filtered_df holds exactly the rows that pass; an empty zones or
\* product_types selection gives the empty result.
C9_FilterExact ==
    /\ \A r \in Range(filtered_df) : r \in Range(df) /\ Passes(r)
    /\ \A r \in Range(df) : Passes(r) => r \in Range(filtered_df)
    /\ Len(filtered_df) = Cardinality({i \in DOMAIN df : Passes(df[i])})
    /\ (selected_zones = {} \/ selected_products = {}) => filtered_df = <<>>

\* an empty zone selection over a table, and an empty result for it
C9_Witness ==
    /\ selected_zones = {}
    /\ selected_products # {}
    /\ df # <<>>
    /\ filtered_df = <<>>

\* C10: filtering the filtered rows again with the same parameters changes nothing.
C10_FilterIdempotent ==
    ApplyFilter(filtered_df, selected_zones, selected_products,
                stock_range[1], stock_range[2]) = filtered_df

\* a narrowed quantity range that keeps some rows and drops others
C10_Witness ==
    /\ stock_range # <<0, max_quantity(df)>>
    /\ filtered_df # <<>>
    /\ Len(filtered_df) < Len(df)


\* the sum of one column of a statistics table over its rows
RECURSIVE ColumnSum(_, _, _)
ColumnSum(stats, keys, column) ==
    IF keys = {} THEN 0
    ELSE LET k == CHOOSE x \in keys : TRUE
         IN  stats[k][column] + ColumnSum(stats, keys \ {k}, column)

\* C11: the Stock column of the zone statistics sums to the sum of quantity
\* over the filtered records, and the Locations column sums to their number.
C11_ZoneStatsConserve ==
    LET stats == zone_stats(filtered_df)
    IN  /\ ColumnSum(stats, DOMAIN stats, "Stock") = total_stock(filtered_df)
        /\ ColumnSum(stats, DOMAIN stats, "Locations") = total_locations(filtered_df)

\* a narrowed filter result with two zone groups, one holding stock and an
\* empty slot
C11_Witness ==
    /\ Len(filtered_df) < Len(df)
    /\ Cardinality(DOMAIN zone_stats(filtered_df)) >= 2
    /\ \E z \in DOMAIN zone_stats(filtered_df) :
          /\ zone_stats(filtered_df)[z].Stock > 0
          /\ \E r \in Range(filtered_df) : r.zone = z /\ r.quantity = 0


\* the stock level the classification rule gives a quantity under (low, high)
Classify(quantity, low, high) ==
    CASE quantity = 0 -> "Empty"
      [] quantity > 0 /\ quantity <= low -> "Low"
      [] quantity > low /\ quantity < high -> "Normal"
      [] OTHER -> "High"

\* C12: the stock level of a quantity is Empty for 0, Low for 0 < qty <= low,
\* Normal for low < qty < high and High for qty >= high: the chart's stock
\* level agrees with the rule under (5, 15), and the low and high stock masks
\* agree with it under the thresholds of the sliders.
C12_Classification ==
    /\ \A r \in Range(product_data(df, ui.selected_product)) :
          stock_level(r.quantity) = Classify(r.quantity, 5, 15)
    /\ ui.low_threshold < ui.high_threshold =>
          \A r \in Range(df) :
              /\ IsLowStock(r.quantity, ui.low_threshold)
                    <=> Classify(r.quantity, ui.low_threshold, ui.high_threshold) = "Low"
              /\ IsHighStock(r.quantity, ui.high_threshold)
                    <=> Classify(r.quantity, ui.low_threshold, ui.high_threshold) = "High"


\* the classes of the Stock Level Analysis that hold a quantity
ClassesOf(quantity) ==
    {c \in {"Empty", "Low", "Normal", "High"} :
        CASE c = "Empty" -> quantity = 0
          [] c = "Low" -> IsUnderstock(quantity, ui.understock_threshold)
          [] c = "Normal" -> IsNormalStock(quantity, ui.understock_threshold,
                                           ui.overstock_threshold)
          [] c = "High" -> IsOverstock(quantity, ui.overstock_threshold)}

\* C13: under thresholds with low < high every quantity of the table is in
\* exactly one of Empty, Low, Normal, High of the Stock Level Analysis, and
\* in exactly one bin of the stock level chart.
C13_TotalPartition ==
    /\ ui.understock_threshold < ui.overstock_threshold =>
          \A r \in Range(df) : Cardinality(ClassesOf(r.quantity)) = 1
    /\ \A r \in Range(df) : Cardinality(BinsOf(r.quantity, stock_level_bins)) = 1

\* thresholds 10 and 11 set by the user over a table holding 0, 10 and 20
C13_Witness ==
    /\ ui.highlight_understock /\ ui.understock_threshold = 10
    /\ ui.highlight_overstock /\ ui.overstock_threshold = 11
    /\ \E r \in Range(df) : r.quantity = 10
    /\ \E r \in Range(df) : r.quantity = 20
    /\ \E r \in Range(df) : r.quantity = 0


\* C14: every mark of a record with quantity 0 is light grey, in the 3D and
\* in the 2D figure, whatever the highlight flags and the base colour.
C14_EmptyIsGrey ==
    \A m \in fig_3d \cup fig_2d : m.quantity = 0 => m.color = "rgb(220, 220, 220)"

\* the colour the priority order gives an occupied record
PriorityColor(r) ==
    IF ui.highlight_understock /\ r.quantity <= ui.understock_threshold
    THEN "rgb(255, 0, 0)"
    ELSE IF ui.highlight_overstock /\ r.quantity >= ui.overstock_threshold
         THEN "rgb(255, 215, 0)"
    ELSE IF r.color.type = "list" /\ Len(r.color.items) >= 3
         THEN "rgb(" \o ToString(r.color.items[1]) \o ", " \o ToString(r.color.items[2])
                  \o ", " \o ToString(r.color.items[3]) \o ")"
    ELSE "rgb(0, 0, 255)"

C16_Dedupe ==
    /\ \A i \in DOMAIN filtered_df : Cardinality({m \in fig_3d : m.index = i}) = 1
    /\ Cardinality(fig_3d) = Len(filtered_df)
    /\ \A i, j \in DOMAIN filtered_df :
          (/\ i # j
           /\ filtered_df[i].x = filtered_df[j].x
           /\ filtered_df[i].y = filtered_df[j].y
           /\ filtered_df[i].depth # filtered_df[j].depth)
          => Cardinality({m \in fig_2d : m.x = filtered_df[i].x /\ m.y = filtered_df[i].y}) = 1

\* an empty front slot and a filled slot behind it on the same footprint
C16_Witness ==
    \E i, j \in DOMAIN filtered_df :
        /\ i < j
        /\ filtered_df[i].x = filtered_df[j].x
        /\ filtered_df[i].y = filtered_df[j].y
        /\ filtered_df[i].depth # filtered_df[j].depth
        /\ filtered_df[i].quantity = 0
        /\ filtered_df[j].quantity > 0


\* a colour that is a list of three items
IsColorTriple(color) == color.type = "list" /\ Len(color.items) = 3

\* C17: a first run that finds the file loads it: every colour of the loaded
\* table is a list of three integers, the table has a record for every row of
\* the file, and the file is left as it was.
C17_LoadNormalises ==
    [][(~store.data_loaded /\ store'.data_loaded /\ store.file.exists) =>
          /\ store'.file = store.file
          /\ Len(df') = Len(store.file.rows)
          /\ \A i \in DOMAIN df' : IsColorTriple(df'[i].color)]_vars

\* two values of a text column that are equal or both missing
SameText(a, b) == a = b \/ (a \in {None, NaN} /\ b \in {None, NaN})

\* two records equal field by field, a missing product_id matching a missing one
SameRecord(a, b) ==
    /\ a.location_id = b.location_id
    /\ a.zone = b.zone
    /\ a.row = b.row /\ a.column = b.column /\ a.depth = b.depth
    /\ a.location_type = b.location_type
    /\ SameText(a.product_id, b.product_id)
    /\ a.quantity = b.quantity
    /\ a.product_type = b.product_type
    /\ a.x = b.x /\ a.y = b.y /\ a.z = b.z
    /\ a.color = b.color
    /\ a.depth_info = b.depth_info

\* C18: the table a session holds equals, field by field, the table last
\* written to the file (product_id missing where it was None, depth_info ""
\* where it was "", colours equal after parsing).
C18_RoundTrip ==
    (store.data_loaded /\ store.writes > 0) =>
        /\ Len(df) = Len(store.saved)
        /\ \A i \in DOMAIN df : SameRecord(df[i], store.saved[i])

\* C19: a click on "Regenerate Warehouse Data" writes a table to the file and
\* leaves that table in the session cache.
C19_Regenerate ==
    [][(last'.op = "regenerate" /\ last.op # "regenerate") =>
          /\ store'.writes = store.writes + 1
          /\ store'.file = to_csv(df')
          /\ store'.saved = df']_vars


\* C20: every ratio of the page is a number over the session's table, a table
\* without rows or without a filled location included, and is 0 where its
\* denominator is 0.
C20_RatiosGuarded ==
    /\ filled_locations_pct(df).kind = "number"
    /\ \A t \in {r.location_type : r \in Range(df)} :
          /\ avg_per_location(LocationTypeGroup(df, t)).kind = "number"
          /\ utilization(LocationTypeGroup(df, t)).kind = "number"
    /\ low_stock_pct(df, ui.low_threshold).kind = "number"
    /\ high_stock_pct(df, ui.high_threshold).kind = "number"
    /\ \A f \in {"understock", "normal", "overstock"} :
          stock_level_pcts(filtered_df, ui.understock_threshold,
                           ui.overstock_threshold)[f].kind = "number"
    /\ stocktake_progress.kind = "number"
    /\ \A p \in product_types(df) : cv_squared(df, p).kind = "number"
    /\ FilledCount(df) = 0 =>
          /\ low_stock_pct(df, ui.low_threshold).v = 0
          /\ high_stock_pct(df, ui.high_threshold).v = 0
          /\ \A p \in product_types(df) : cv_squared(df, p).v = 0


(***************************************************************************)
(* C21.  The shape of the generated table does not depend on the random    *)
(* choices: once the loops have ended, every zone of the layout has        *)
(* rows * cols * depth records (each limited by the layout), the zones     *)
(* come in the order of the configuration, and exactly NumDocks DOCK       *)
(* records follow, DOCK-1 first.  Under the tape of the state the          *)
(* generator run on zone A alone with its configured 2 rows, 20 columns    *)
(* and 3 levels returns exactly 120 zone A records and then the 5 docks.   *)
(***************************************************************************)
ZoneCount(table, zone_id) ==
    Cardinality({i \in DOMAIN table : table[i].zone = zone_id})

\* the records up to and including the zone with index zi of the layout
RECURSIVE SlotsThrough(_)
SlotsThrough(zi) ==
    IF zi = 0 THEN 0
    ELSE SlotsThrough(zi - 1)
         + Min(zone_configs[GenZones[zi]].rows, MaxRows)
           * Min(zone_configs[GenZones[zi]].cols, MaxCols)
           * Min(zone_configs[GenZones[zi]].depth, MaxDepth)

ZoneALayout ==
    [zones |-> <<"A">>, rows |-> zone_configs["A"].rows,
     cols |-> zone_configs["A"].cols, depth |-> zone_configs["A"].depth,
     docks |-> NumDocks]

ShapeOf(table, slots) ==
    /\ Len(table) = slots + NumDocks
    /\ \A i \in 1..NumDocks :
           /\ table[slots + i].zone = "DOCK"
           /\ table[slots + i].location_id = "DOCK-" \o ToString(i)
    /\ \A i \in 1..slots : table[i].zone # "DOCK"

C21_GeneratorShape ==
    gen.pc \in {"return", "done"} =>
        /\ ShapeOf(locations, SlotsThrough(Len(GenZones)))
        /\ \A zi \in 1..Len(GenZones) :
               /\ ZoneCount(locations, GenZones[zi])
                      = SlotsThrough(zi) - SlotsThrough(zi - 1)
               /\ \A i \in (SlotsThrough(zi - 1) + 1)..SlotsThrough(zi) :
                      locations[i].zone = GenZones[zi]
        /\ LET zone_a == generate_realistic_warehouse(ZoneALayout, tape)
           IN  /\ ZoneCount(zone_a, "A") = 120
               /\ ShapeOf(zone_a, 120)

C21_Witness ==
    /\ gen.pc = "done"
    /\ df = locations
    /\ Len(df) = SlotsThrough(Len(GenZones)) + NumDocks
    /\ \E i, j \in DOMAIN df : df[i].quantity > 0 /\ df[j].quantity = 0 /\ df[j].zone # "DOCK"


(***************************************************************************)
(* C22.  In every reachable state of the session the progress bar shows    *)
(* completed / total_to_check, where completed counts the records in       *)
(* scope whose location_id is a key of the verification map:               *)
(* 0 <= completed <= total_to_check, the bar is at 0 when nothing is in    *)
(* scope, and the verified ids that no record in scope carries add         *)
(* nothing to completed.                                                   *)
(***************************************************************************)
\* the verified ids that no record of stocktake_df carries
VerifiedOutOfScope ==
    {k \in DOMAIN verified_locations : \A i \in stocktake_rows : df[i].location_id # k}

C22_Progress ==
    /\ 0 <= completed
    /\ completed <= total_to_check
    /\ completed
          = Cardinality({i \in DOMAIN df :
                /\ InStocktakeScope(df[i], stocktake_zones, stocktake_products,
                                    stocktake_focus)
                /\ df[i].location_id \in DOMAIN verified_locations \ VerifiedOutOfScope})
    /\ total_to_check = 0 => stocktake_progress = Number(0)
    /\ total_to_check > 0 =>
          /\ stocktake_progress.kind = "number"
          /\ stocktake_progress.v = (completed * 1000) \div total_to_check
          /\ stocktake_progress.v \in 0..1000

C22_Witness ==
    /\ VerifiedOutOfScope # {}
    /\ completed > 0
    /\ completed < total_to_check


(***************************************************************************)
(* C23.  At every point of the generator's run, two records of one zone    *)
(* that differ in row, column or depth differ in (x, y, z), and two        *)
(* records of one zone with the same row and column have the same (x, y).  *)
(***************************************************************************)
Slot(r) == <<r.row, r.column, r.depth>>

C23_CoordinatesInjective ==
    \A i, j \in DOMAIN locations :
        (locations[i].zone = locations[j].zone) =>
            /\ (Slot(locations[i]) # Slot(locations[j])) =>
                   <<locations[i].x, locations[i].y, locations[i].z>>
                       # <<locations[j].x, locations[j].y, locations[j].z>>
            /\ (/\ locations[i].row = locations[j].row
                /\ locations[i].column = locations[j].column) =>
                   /\ locations[i].x = locations[j].x
                   /\ locations[i].y = locations[j].y

C23_Witness ==
    /\ gen.pc = "done"
    /\ \E i, j \in DOMAIN locations :
           /\ locations[i].zone = locations[j].zone
           /\ locations[i].row = locations[j].row
           /\ locations[i].column = locations[j].column
           /\ locations[i].depth # locations[j].depth
           /\ locations[i].z # locations[j].z
    /\ \E i, j \in DOMAIN locations :
           /\ locations[i].zone = locations[j].zone
           /\ locations[i].zone # "DOCK"
           /\ locations[i].row # locations[j].row
           /\ locations[i].column # locations[j].column


(***************************************************************************)
(* C24.  In every reachable state of the session every row of report()     *)
(* carries the stocktaking date the session holds and the worker name the  *)
(* text input holds, so all rows carry the same verification_date and the  *)
(* same verified_by, whenever each row was verified.                       *)
(***************************************************************************)
C24_SharedStamp ==
    /\ \A r \in report :
           /\ r.verification_date = ui.stocktaking_date
           /\ r.verified_by = ui.worker_name
    /\ \A r1, r2 \in report :
           /\ r1.verification_date = r2.verification_date
           /\ r1.verified_by = r2.verified_by

C24_Witness ==
    /\ Cardinality(report) >= 2
    /\ ui.stocktaking_date # today
    /\ ui.worker_name # ""


(***************************************************************************)
(* C25.  In every reachable state of the session the verification map and  *)
(* the notes map have the same keys (a location_id has stored notes        *)
(* exactly when it has a stored actual quantity), and every stored actual  *)
(* quantity is a number >= 0.                                              *)
(***************************************************************************)
C25_SameKeys ==
    /\ DOMAIN verified_locations = DOMAIN notes
    /\ \A k \in DOMAIN verified_locations : verified_locations[k] >= 0

C25_Witness ==
    /\ last.op = "edit"
    /\ DOMAIN verified_locations # {}
    /\ DOMAIN notes = DOMAIN verified_locations
    /\ \E k \in DOMAIN notes : notes[k] = ""


(***************************************************************************)
(* C26.  Only verify, edit and reset change the stocktaking maps: a step   *)
(* that changes the Tab 3 scope (zones, product types, focus, threshold)   *)
(* or the Tab 1 filter leaves both maps and report() as they were, a step  *)
(* that changes a map is a verify, an edit or a reset, and every verified  *)
(* location_id has its row in report() whether or not a record with that   *)
(* id is in the current scope.                                             *)
(***************************************************************************)
ScopeControls ==
    <<stocktake_zones, stocktake_products, stocktake_focus, ui.stocktake_threshold,
      selected_zones, selected_products, stock_range, filtered_df>>

C26_OnlySessionSteps ==
    [][/\ (ScopeControls' # ScopeControls) =>
              /\ verified_locations' = verified_locations
              /\ notes' = notes
              /\ report' = report
       /\ (verified_locations' # verified_locations \/ notes' # notes) =>
              /\ last' # last
              /\ last'.op \in {"verify", "edit", "reset"}
       /\ \A k \in DOMAIN verified_locations' :
              \E r \in report' :
                  /\ r.location_id = k
                  /\ r.actual_quantity = verified_locations'[k]
      ]_vars

\* a verified id out of the scope the threshold leaves, the filter emptied
C26_Witness ==
    /\ ui.stocktake_threshold # stocktake_threshold
    /\ stocktake_focus = "Overstock Locations"
    /\ selected_zones = {}
    /\ \E k \in VerifiedOutOfScope : \E r \in report : r.location_id = k
    /\ stocktake_zones = all_zones(df)
    /\ stocktake_products = product_types(df)


(***************************************************************************)
(* C27.  Whenever the Stock Level Analysis is shown, under every pair of   *)
(* thresholds the two number inputs allow (understock 1..10, overstock     *)
(* 10..50), understock_count + normal_count + overstock_count equals the   *)
(* number of filled locations of filtered_df, and no filled record is      *)
(* both understock and overstock.                                          *)
(***************************************************************************)
C27_CountsPartition ==
    (ui.highlight_understock \/ ui.highlight_overstock) =>
        /\ ui.understock_threshold \in 1..10
        /\ ui.overstock_threshold \in 10..50
        /\ understock_count(filtered_df, ui.understock_threshold)
             + normal_count(filtered_df, ui.understock_threshold, ui.overstock_threshold)
             + overstock_count(filtered_df, ui.overstock_threshold)
               = FilledCount(filtered_df)
        /\ \A i \in DOMAIN filtered_df :
               ~(/\ IsUnderstock(filtered_df[i].quantity, ui.understock_threshold)
                 /\ IsOverstock(filtered_df[i].quantity, ui.overstock_threshold))

====
